---------------------------- MODULE Spec2Model ----------------------------
(***************************************************************************)
(* Leaderboard (src/leaderboard_core.py) and the add, remove and clear     *)
(* paths of the interactive shell (src/leaderboard_userdriven.py).         *)
(*                                                                         *)
(* A gap is a Python float, modelled as a pair <<kind, n>>:                *)
(*   <<"fin", n>>  the finite value n,                                     *)
(*   <<"inf", 1>>  +infinity,  <<"inf", -1>>  -infinity,                   *)
(*   <<"nan", i>>  the NaN float object number i (object identity counts,  *)
(*                 because tuple comparison short-cuts on identity).       *)
(* A name is a Python str, modelled as the sequence of its code points.    *)
(***************************************************************************)
EXTENDS Integers, Sequences, FiniteSets, TLC

VARIABLES drivers, driver_map

vars == <<drivers, driver_map>>

(* ------------------------------ bounds -------------------------------- *)

\* finite gaps run over -MaxGap..MaxGap when every gap supplied is finite
MaxGap == 2

\* finite gaps run over 0..MaxPlain when non-finite gaps are supplied too
MaxPlain == 0

\* the number of distinct NaN float objects a caller holds
MaxNaN == 1

\* top_k is asked for k up to MaxK

MaxK == 4

(* ------------------------------ values -------------------------------- *)

Fin(n) == <<"fin", n>>

PInf == <<"inf", 1>>

NInf == <<"inf", -1>>

NaN(i) == <<"nan", i>>

IsNaN(g) == g[1] = "nan"

IsFinite(g) == g[1] = "fin"

\* the finite gaps a caller supplies, negative ones included
FiniteGaps == {Fin(n) : n \in (0 - MaxGap)..MaxGap}

NaNs == {NaN(i) : i \in 1..MaxNaN}

\* every kind of float a caller supplies
Gaps == {Fin(n) : n \in 0..MaxPlain} \cup {PInf, NInf} \cup NaNs

ALB == <<65, 76, 66>>

ALO == <<65, 76, 79>>

BOT == <<66, 79, 84>>

Names == {ALB, ALO, BOT}

None == <<>>

Some(v) == <<v>>

(* ------------------------- Python comparisons ------------------------- *)

\* float.__lt__: false as soon as one side is NaN
FloatLt(a, b) ==
    IF IsNaN(a) \/ IsNaN(b) THEN FALSE
    ELSE IF a[1] = "inf" THEN a[2] = -1 /\ b # NInf
    ELSE IF b[1] = "inf" THEN b[2] = 1
    ELSE a[2] < b[2]

\* float.__eq__: NaN equals nothing, itself included
FloatEq(a, b) == ~IsNaN(a) /\ ~IsNaN(b) /\ a = b

\* PyObject_RichCompareBool(v, w, Py_EQ): identity first, then ==
ItemEq(a, b) == a = b \/ FloatEq(a, b)

Min2(a, b) == IF a < b THEN a ELSE b

Max2(a, b) == IF a > b THEN a ELSE b

RECURSIVE StrLtFrom(_, _, _)
StrLtFrom(s, t, i) ==
    IF i > Len(s) \/ i > Len(t) THEN Len(s) < Len(t)
    ELSE IF s[i] # t[i] THEN s[i] < t[i]
    ELSE StrLtFrom(s, t, i + 1)

\* str.__lt__: by code point, a proper prefix first
StrLt(s, t) == StrLtFrom(s, t, 1)

\* tuple.__lt__ on (gap, name): the first pair of items that are not
\* ItemEq decides, by its own < ; equal tuples are not less
TupleLt(x, y) ==
    IF ~ItemEq(x[1], y[1]) THEN FloatLt(x[1], y[1])
    ELSE IF x[2] # y[2] THEN StrLt(x[2], y[2])
    ELSE FALSE

(* ------------------------------ bisect -------------------------------- *)

\* lo, hi are Python's 0-based indexes; a[mid] is a[mid + 1] here
RECURSIVE bisect_left_loop(_, _, _, _)
bisect_left_loop(a, x, lo, hi) ==
    IF lo < hi
    THEN LET mid == (lo + hi) \div 2
         IN IF TupleLt(a[mid + 1], x)
            THEN bisect_left_loop(a, x, mid + 1, hi)
            ELSE bisect_left_loop(a, x, lo, mid)
    ELSE lo

bisect_left(a, x) == bisect_left_loop(a, x, 0, Len(a))

RECURSIVE bisect_right_loop(_, _, _, _)
bisect_right_loop(a, x, lo, hi) ==
    IF lo < hi
    THEN LET mid == (lo + hi) \div 2
         IN IF TupleLt(x, a[mid + 1])
            THEN bisect_right_loop(a, x, lo, mid)
            ELSE bisect_right_loop(a, x, mid + 1, hi)
    ELSE lo

bisect_right(a, x) == bisect_right_loop(a, x, 0, Len(a))

\* list.insert(i, x), i a 0-based index in 0..len
ListInsert(a, i, x) == SubSeq(a, 1, i) \o <<x>> \o SubSeq(a, i + 1, Len(a))

\* list.pop(i) for an index in range, i 0-based: the list that is left
ListPop(a, i) == SubSeq(a, 1, i) \o SubSeq(a, i + 2, Len(a))

\* a slip: the new tuple is appended instead of inserted in order
insort_append(a, x) == Append(a, x)

insort(a, x) == ListInsert(a, bisect_right(a, x), x)

(* ---------------------------- Leaderboard ----------------------------- *)
(* A Leaderboard object is a record [drivers, driver_map].  A call is a    *)
(* function of the object and the arguments: it yields the object as the  *)
(* call leaves it and `out`, what the call returned, raised or printed.   *)

EmptyMap == [n \in {} |-> Fin(0)]

MapSet(m, name, gap) ==
    [n \in (DOMAIN m) \cup {name} |-> IF n = name THEN gap ELSE m[n]]

MapDel(m, name) == [n \in (DOMAIN m) \ {name} |-> m[n]]

Leaderboard(d, m) == [drivers |-> d, driver_map |-> m]

Result(d, m, out) == [drivers |-> d, driver_map |-> m, out |-> out]

\* the call changes nothing and reports `out`
Unchanged(self, out) == Result(self.drivers, self.driver_map, out)

\* the global leaderboard instance
lb == Leaderboard(drivers, driver_map)

\* the call leaves the global instance as r says
Apply(r) == drivers' = r.drivers /\ driver_map' = r.driver_map

Init == drivers = <<>> /\ driver_map = EmptyMap

\* Leaderboard.update: "IndexError" when the pop raises (nothing is changed
\* yet at that point), "ok" when it returns
update_call(self, name, gap) ==
    IF name \in DOMAIN self.driver_map
    THEN LET old_gap == self.driver_map[name]
             idx == bisect_left(self.drivers, <<old_gap, name>>)
         IN IF idx >= Len(self.drivers)
            THEN Unchanged(self, "IndexError")
            ELSE Result(insort(ListPop(self.drivers, idx), <<gap, name>>),
                        MapSet(self.driver_map, name, gap), "ok")
    ELSE Result(insort(self.drivers, <<gap, name>>),
                MapSet(self.driver_map, name, gap), "ok")

update(name, gap) == Apply(update_call(lb, name, gap))

\* a slip: an absent name is looked up with a default gap of 0.0
get_rank_default(self, name) ==
    LET gap == IF name \in DOMAIN self.driver_map
               THEN self.driver_map[name] ELSE Fin(0)
        idx == bisect_left(self.drivers, <<gap, name>>)
    IN Some(idx + 1)

get_rank(self, name) ==
    IF name \notin DOMAIN self.driver_map THEN None
    ELSE LET gap == self.driver_map[name]
             idx == bisect_left(self.drivers, <<gap, name>>)
         IN Some(idx + 1)

\* a[:k]
SliceTo(a, k) ==
    IF k >= 0 THEN SubSeq(a, 1, Min2(k, Len(a)))
    ELSE SubSeq(a, 1, Max2(Len(a) + k, 0))

top_k(self, k) ==
    LET s == SliceTo(self.drivers, k)
    IN [i \in 1..Len(s) |-> <<i, s[i][2], s[i][1]>>]

\* a slip: the entry is popped to be read
get_rank_pops(self, name) ==
    IF name \notin DOMAIN self.driver_map THEN Unchanged(self, None)
    ELSE LET gap == self.driver_map[name]
             idx == bisect_left(self.drivers, <<gap, name>>)
         IN Result(ListPop(self.drivers, Min2(idx, Len(self.drivers) - 1)),
                   self.driver_map, Some(idx + 1))

\* the calls of the two queries: neither assigns to self
get_rank_call(self, name) == Unchanged(self, get_rank(self, name))

top_k_call(self, k) == Unchanged(self, top_k(self, k))

(* ------------------------------- shell -------------------------------- *)

Lowercase == 97..122

Uppercase == 65..90

\* the code points str.strip() removes
Whitespace == {9, 10, 11, 12, 13, 28, 29, 30, 31, 32}

Upper(s) == [i \in 1..Len(s) |-> IF s[i] \in Lowercase THEN s[i] - 32 ELSE s[i]]

Lower(s) == [i \in 1..Len(s) |-> IF s[i] \in Uppercase THEN s[i] + 32 ELSE s[i]]

RECURSIVE LStrip(_)
LStrip(s) == IF s # <<>> /\ Head(s) \in Whitespace THEN LStrip(Tail(s)) ELSE s

RECURSIVE RStrip(_)
RStrip(s) ==
    IF s # <<>> /\ s[Len(s)] \in Whitespace
    THEN RStrip(SubSeq(s, 1, Len(s) - 1))
    ELSE s

Strip(s) == RStrip(LStrip(s))

\* input(...).upper().strip()
DriverCode(raw) == Strip(Upper(raw))

\* input(...).lower() == 'y'
Yes(answer) == Lower(answer) = <<121>>

\* what the operator may type for a driver code: " alb", "ALO", "BOT", "AL"
RawNames == {<<32, 97, 108, 98>>, ALO, BOT, <<65, 76>>}

\* what the operator may answer to a y/n prompt: "Y", "n"
Answers == {<<89>>, <<110>>}

\* the answer to a prompt that is never shown
NoInput == <<>>

\* the 0-based index the removal scan stops at, None when it finds nothing
RECURSIVE RemoveScan(_, _, _, _)
RemoveScan(d, name, gap, i) ==
    IF i >= Len(d) THEN None
    ELSE IF d[i + 1][2] = name /\ FloatEq(d[i + 1][1], gap) THEN Some(i)
    ELSE RemoveScan(d, name, gap, i + 1)

\* a slip: the removal is cancelled on 'n' only
module_4_remove_unless_n(self, raw, confirm) ==
    LET name == DriverCode(raw)
    IN IF self.driver_map = EmptyMap
       THEN Unchanged(self, "No drivers in the system")
       ELSE IF name \notin DOMAIN self.driver_map
       THEN Unchanged(self, "not found")
       ELSE IF Lower(confirm) = <<110>>
       THEN Unchanged(self, "Removal cancelled")
       ELSE LET gap == self.driver_map[name]
                idx == RemoveScan(self.drivers, name, gap, 0)
            IN IF idx # None
               THEN Result(ListPop(self.drivers, idx[1]),
                           MapDel(self.driver_map, name), "removed successfully")
               ELSE Unchanged(self, "Error removing driver")

\* module_4_remove_driver on the instance `self`; the listing it prints
\* first reads the index and changes nothing
module_4_remove_driver_call(self, raw, confirm) ==
    LET name == DriverCode(raw)
    IN IF self.driver_map = EmptyMap
       THEN Unchanged(self, "No drivers in the system")
       ELSE IF name \notin DOMAIN self.driver_map
       THEN Unchanged(self, "not found")
       ELSE IF ~Yes(confirm)
       THEN Unchanged(self, "Removal cancelled")
       ELSE LET gap == self.driver_map[name]
                idx == RemoveScan(self.drivers, name, gap, 0)
            IN IF idx # None
               THEN Result(ListPop(self.drivers, idx[1]),
                           MapDel(self.driver_map, name), "removed successfully")
               ELSE Unchanged(self, "Error removing driver")

module_4_remove_driver(raw, confirm) ==
    Apply(module_4_remove_driver_call(lb, raw, confirm))

\* a slip: only the list is cleared
main_clear_keeps_map(self, confirm) ==
    IF Yes(confirm) THEN Result(<<>>, self.driver_map, "All data cleared")
    ELSE Unchanged(self, "")

\* main, choice '6'
main_clear_call(self, confirm) ==
    IF Yes(confirm) THEN Result(<<>>, EmptyMap, "All data cleared")
    ELSE Unchanged(self, "")

main_clear(confirm) == Apply(main_clear_call(lb, confirm))

\* float(input(...)) failed
ValueError == <<"err", 0>>

\* the float objects the index holds
Held ==
    {drivers[i][1] : i \in 1..Len(drivers)}
        \cup {driver_map[n] : n \in DOMAIN driver_map}

\* float(input(...)) makes a new object: a NaN it returns is held nowhere
Parsed(G) == {ValueError} \cup {g \in G : IsNaN(g) => g \notin Held}

\* module_1_add_driver; an IndexError of update is not caught
module_1_add_driver_call(self, raw, choice, parsed) ==
    LET name == DriverCode(raw)
    IN IF Len(name) # 3 THEN Unchanged(self, "must be exactly 3 letters")
       ELSE IF name \in DOMAIN self.driver_map /\ ~Yes(choice)
       THEN Unchanged(self, "")
       ELSE IF parsed = ValueError THEN Unchanged(self, "Invalid gap time")
       ELSE IF FloatLt(parsed, Fin(0))
       THEN Unchanged(self, "cannot be negative")
       ELSE LET r == update_call(self, name, parsed)
            IN IF r.out = "ok"
               THEN Result(r.drivers, r.driver_map, "added")
               ELSE r

module_1_add_driver(raw, choice, parsed) ==
    Apply(module_1_add_driver_call(lb, raw, choice, parsed))

\* names of the sample data and of the demo
LEC == <<76, 69, 67>>

SAI == <<83, 65, 73>>

VER == <<86, 69, 82>>

PER == <<80, 69, 82>>

HAM == <<72, 65, 77>>

GAS == <<71, 65, 83>>

NOR == <<78, 79, 82>>

TSU == <<84, 83, 85>>

\* load_sample_data's list, gaps in thousandths of a second
sample_drivers ==
    << <<LEC, Fin(0)>>, <<SAI, Fin(11850)>>, <<VER, Fin(12252)>>,
       <<PER, Fin(14777)>>, <<BOT, Fin(16347)>>, <<HAM, Fin(18481)>>,
       <<GAS, Fin(18332)>>, <<ALO, Fin(20359)>>, <<NOR, Fin(20155)>>,
       <<TSU, Fin(20570)>> >>

\* the initial standings of the demo in leaderboard_core.py
demo_drivers == SubSeq(sample_drivers, 1, 5)

\* for name, gap in pairs: self.update(name, gap); an IndexError ends the
\* loop and leaves the updates made so far
RECURSIVE update_all(_, _)
update_all(self, pairs) ==
    IF pairs = <<>> THEN Unchanged(self, "ok")
    ELSE LET r == update_call(self, Head(pairs)[1], Head(pairs)[2])
         IN IF r.out # "ok" THEN r
            ELSE update_all(Leaderboard(r.drivers, r.driver_map), Tail(pairs))

\* module_2_update_lap_time; the two get_rank calls around the update only
\* read, and an IndexError of update is not caught
module_2_update_lap_time_call(self, raw, parsed) ==
    LET name == DriverCode(raw)
    IN IF self.driver_map = EmptyMap
       THEN Unchanged(self, "No drivers in the system")
       ELSE IF name \notin DOMAIN self.driver_map
       THEN Unchanged(self, "not found")
       ELSE IF parsed = ValueError THEN Unchanged(self, "Invalid gap time")
       ELSE IF FloatLt(parsed, Fin(0))
       THEN Unchanged(self, "cannot be negative")
       ELSE LET r == update_call(self, name, parsed)
            IN IF r.out = "ok"
               THEN Result(r.drivers, r.driver_map, "updated")
               ELSE r

module_2_update_lap_time(raw, parsed) ==
    Apply(module_2_update_lap_time_call(lb, raw, parsed))

\* module_3_display_leaderboard
module_3_display_leaderboard_call(self) ==
    IF self.driver_map = EmptyMap
    THEN Unchanged(self, "No drivers in the system yet")
    ELSE top_k_call(self, 20)

module_3_display_leaderboard == Apply(module_3_display_leaderboard_call(lb))

\* load_sample_data; an IndexError of update is not caught
load_sample_data_call(self) ==
    LET r == update_all(self, sample_drivers)
    IN IF r.out = "ok"
       THEN Result(r.drivers, r.driver_map, "Sample data loaded")
       ELSE r

load_sample_data == Apply(load_sample_data_call(lb))

(* ------------------------------ system -------------------------------- *)

DoUpdate(G) == \E name \in Names, gap \in G : update(name, gap)

\* module_1_add_driver asks for the choice only when the code is held
\* already, and for the gap only when it goes on
ChoiceAsked(raw) ==
    Len(DriverCode(raw)) = 3 /\ DriverCode(raw) \in DOMAIN driver_map

GapAsked(raw, choice) ==
    Len(DriverCode(raw)) = 3 /\ (ChoiceAsked(raw) => Yes(choice))

DoAdd(G) ==
    \E raw \in RawNames :
        \E choice \in (IF ChoiceAsked(raw) THEN Answers ELSE {NoInput}) :
            \E parsed \in (IF GapAsked(raw, choice) THEN Parsed(G) ELSE {NoInput}) :
                module_1_add_driver(raw, choice, parsed)

DoRemove ==
    \E raw \in RawNames, confirm \in Answers : module_4_remove_driver(raw, confirm)

DoClear == \E confirm \in Answers : main_clear(confirm)

DoGetRank == \E name \in Names : Apply(get_rank_call(lb, name))

DoTopK == \E k \in (0 - MaxK)..MaxK : Apply(top_k_call(lb, k))

\* callers of the Leaderboard methods, and the operator of the shell adding,
\* removing and clearing
Next ==
    \/ DoUpdate(Gaps) \/ DoAdd(Gaps) \/ DoRemove \/ DoClear
    \/ DoGetRank \/ DoTopK

Spec == Init /\ [][Next]_vars

\* the same program when every gap supplied is finite
NextFinite ==
    \/ DoUpdate(FiniteGaps) \/ DoAdd(FiniteGaps) \/ DoRemove \/ DoClear
    \/ DoGetRank \/ DoTopK

SpecFinite == Init /\ [][NextFinite]_vars

\* what the operator of the shell alone may type for a driver code:
\* " alo", "AL"
ShellRawNames == {<<32, 97, 108, 111>>, <<65, 76>>}

ShellAdd ==
    \E raw \in ShellRawNames :
        \E choice \in (IF ChoiceAsked(raw) THEN Answers ELSE {NoInput}) :
            \E parsed \in (IF GapAsked(raw, choice) THEN Parsed(Gaps) ELSE {NoInput}) :
                module_1_add_driver(raw, choice, parsed)

\* module_2_update_lap_time asks for the gap only when the code is held
LapGapAsked(raw) == DriverCode(raw) \in DOMAIN driver_map

ShellUpdateLap ==
    \E raw \in ShellRawNames :
        \E parsed \in (IF LapGapAsked(raw) THEN Parsed(Gaps) ELSE {NoInput}) :
            module_2_update_lap_time(raw, parsed)

ShellDisplay == module_3_display_leaderboard

ShellRemove ==
    \E raw \in ShellRawNames, confirm \in Answers :
        module_4_remove_driver(raw, confirm)

ShellLoadSample == load_sample_data

\* the operator of the shell alone: the six choices of the menu
NextShell ==
    \/ ShellAdd \/ ShellUpdateLap \/ ShellDisplay
    \/ ShellRemove \/ ShellLoadSample \/ DoClear

SpecShell == Init /\ [][NextShell]_vars

(* ----------------------------- properties ------------------------------ *)

\* x is ordered before y: a smaller gap, or an equal gap (the same float
\* object counts as equal) and a smaller name
PairBefore(x, y) ==
    \/ FloatLt(x[1], y[1])
    \/ ItemEq(x[1], y[1]) /\ StrLt(x[2], y[2])

\* the number of entries of `d` ordered strictly before the pair e
Before(d, e) == Cardinality({p \in 1..Len(d) : PairBefore(d[p], e)})

\* the positions of `d` that hold an entry of `name`
Positions(d, name) == {i \in 1..Len(d) : d[i][2] = name}

\* `d` without the entries of `name`, in order
Others(d, name) == SelectSeq(d, LAMBDA e : e[2] # name)

\* C1: Ordering invariant. With finite gaps (negative ones included), after
\* any sequence of updates, shell removals and clears from the empty
\* Leaderboard, every adjacent pair of `drivers` is in (gap, name) order:
\* the earlier entry has a smaller gap, or an equal gap and a smaller name.
C1_Ordering ==
    \A i \in 1..(Len(drivers) - 1) : PairBefore(drivers[i], drivers[i + 1])

\* a full index led by a negative gap, with a tie on the gap behind it
C1_Witness ==
    /\ Len(drivers) = 3
    /\ drivers[1][1][2] < 0
    /\ drivers[2][1] = drivers[3][1]

\* C2: Bijection invariant. After any sequence of update, removal and clear
\* operations the names of `driver_map` are the names occurring in
\* `drivers`, each name occurs in `drivers` exactly once, with the gap
\* `driver_map` stores for it, and the two have the same length.
C2_Bijection ==
    /\ DOMAIN driver_map = {drivers[i][2] : i \in 1..Len(drivers)}
    /\ \A n \in DOMAIN driver_map : Cardinality(Positions(drivers, n)) = 1
    /\ \A i \in 1..Len(drivers) :
           /\ drivers[i][2] \in DOMAIN driver_map
           /\ drivers[i][1] = driver_map[drivers[i][2]]
    /\ Len(drivers) = Cardinality(DOMAIN driver_map)

\* C3: Rank correctness. In every reachable state, for every name K in the
\* index, get_rank(K) is 1 plus the number of entries whose (gap, name)
\* pair is strictly before K's current pair in the (gap, then name) order.
C3_RankCorrect ==
    \A K \in DOMAIN driver_map :
        get_rank(lb, K) = Some(1 + Before(drivers, <<driver_map[K], K>>))

\* C4: Top-k prefix property. In every reachable state and for every
\* k >= 0, top_k(k) has min(k, size) triples, and its i-th triple is
\* (i, name, gap) for the i-th entry in ascending (gap, name) order, the
\* entry with exactly i - 1 entries before it; k above the size returns all.
C4_TopKPrefix ==
    \A k \in 0..MaxK :
        LET t == top_k(lb, k)
        IN /\ Len(t) = Min2(k, Len(drivers))
           /\ \A i \in 1..Len(t) :
                  \E j \in 1..Len(drivers) :
                      /\ t[i] = <<i, drivers[j][2], drivers[j][1]>>
                      /\ Before(drivers, drivers[j]) = i - 1

\* C5: Invalid score rejection. An update whose gap is NaN, +infinity or
\* -infinity is rejected with InvalidScore and leaves `drivers` and
\* `driver_map` as they were, the name being absent or present.
C5_InvalidScoreRejected ==
    \A name \in Names, gap \in Gaps :
        ~IsFinite(gap) =>
            LET r == update_call(lb, name, gap)
            IN /\ r.out = "InvalidScore"
               /\ r.drivers = drivers
               /\ r.driver_map = driver_map

\* C6: Upsert replaces rather than duplicates. update(name, gap) on a name
\* that is present keeps the size, on an absent name adds one to it; it
\* leaves exactly one entry for the name, with the new gap; every other
\* name keeps its gap and the other entries keep their relative order.
C6_UpsertReplaces ==
    \A name \in Names, gap \in Gaps :
        LET r == update_call(lb, name, gap)
        IN /\ Len(r.drivers) =
                  IF name \in DOMAIN driver_map
                  THEN Len(drivers) ELSE Len(drivers) + 1
           /\ Cardinality(Positions(r.drivers, name)) = 1
           /\ \A i \in Positions(r.drivers, name) : r.drivers[i][1] = gap
           /\ r.driver_map = MapSet(driver_map, name, gap)
           /\ Others(r.drivers, name) = Others(drivers, name)

\* C7: Removal of a present key. Removing a name that is present deletes
\* that name's entry from `drivers` and `driver_map` and nothing else,
\* reports success, takes one off the size, keeps the other entries in
\* their order, and get_rank of the name is None afterwards.
C7_RemovePresent ==
    \A raw \in RawNames, confirm \in Answers :
        LET name == DriverCode(raw)
            r == module_4_remove_driver_call(lb, raw, confirm)
        IN (name \in DOMAIN driver_map /\ Yes(confirm)) =>
               /\ r.out = "removed successfully"
               /\ r.driver_map = MapDel(driver_map, name)
               /\ Positions(r.drivers, name) = {}
               /\ Len(r.drivers) = Len(drivers) - 1
               /\ Others(r.drivers, name) = Others(drivers, name)
               /\ get_rank(Leaderboard(r.drivers, r.driver_map), name) = None

\* C8: Idempotence of no-op upsert. In every reachable state, update of a
\* present name with the gap it has already leaves `drivers` and
\* `driver_map` as they were.  (A NaN gap equals no gap, itself included.)
C8_NoOpUpsert ==
    \A name \in DOMAIN driver_map :
        LET gap == driver_map[name]
            r == update_call(lb, name, gap)
        IN FloatEq(gap, driver_map[name]) =>
               r.drivers = drivers /\ r.driver_map = driver_map

\* C9: Absence is a normal outcome. In every reachable state, removing a
\* name that is not present reports the failure, raises nothing and leaves
\* `drivers` and `driver_map` unchanged, and get_rank of it is None.
C9_AbsenceIsNormal ==
    \A raw \in RawNames, confirm \in Answers :
        LET name == DriverCode(raw)
            r == module_4_remove_driver_call(lb, raw, confirm)
        IN name \notin DOMAIN driver_map =>
               /\ r.out \in {"not found", "No drivers in the system"}
               /\ r.drivers = drivers
               /\ r.driver_map = driver_map
               /\ get_rank(lb, name) = None

\* a name is held, another is asked to be removed and is reported missing
C9_Witness ==
    /\ driver_map # EmptyMap
    /\ \E raw \in RawNames :
           /\ Len(DriverCode(raw)) = 3
           /\ DriverCode(raw) \notin DOMAIN driver_map
           /\ module_4_remove_driver_call(lb, raw, <<89>>).out = "not found"

\* C10: Clear resets to the empty initial state. A confirmed clear from any
\* reachable state leaves size 0, top_k(k) empty for every k and get_rank
\* None for every name held before, and the index is the one a freshly
\* constructed Leaderboard has, so that what follows behaves as on it.
C10_ClearResets ==
    \A confirm \in Answers :
        Yes(confirm) =>
            LET r == main_clear_call(lb, confirm)
                after == Leaderboard(r.drivers, r.driver_map)
            IN /\ Len(after.drivers) = 0
               /\ Cardinality(DOMAIN after.driver_map) = 0
               /\ \A k \in 0..MaxK : top_k(after, k) = <<>>
               /\ \A name \in DOMAIN driver_map : get_rank(after, name) = None
               /\ after = Leaderboard(<<>>, EmptyMap)

\* a full index, one gap of it a NaN, on which a clear is confirmed
C10_Witness ==
    /\ Len(drivers) = 3
    /\ \E n \in DOMAIN driver_map : IsNaN(driver_map[n])
    /\ main_clear_call(lb, <<89>>).out = "All data cleared"

\* the rank get_rank gives a name that is held
RankOf(self, name) == get_rank(self, name)[1]

\* the index a call leaves
After(r) == Leaderboard(r.drivers, r.driver_map)

\* C11, for the gaps of G: after update(K, s) on a present name K,
\* get_rank(K) is 1 plus the number of other entries before (s, K); a name
\* ranked between K's old and new rank moves one rank towards K's old
\* rank, every other name keeps its rank.
C11_On(G) ==
    \A K \in DOMAIN driver_map, s \in G :
        LET after == After(update_call(lb, K, s))
            p == RankOf(lb, K)
            q == RankOf(after, K)
        IN /\ get_rank(after, K) =
                  Some(1 + Before(Others(after.drivers, K), <<s, K>>))
           /\ \A N \in (DOMAIN driver_map) \ {K} :
                  LET a == RankOf(lb, N)
                  IN get_rank(after, N) =
                         Some(IF p < a /\ a <= q THEN a - 1
                              ELSE IF q <= a /\ a < p THEN a + 1
                              ELSE a)

\* A(5), B(10), then A to 15: the order is [B, A], rank(A) = 2, rank(B) = 1
C11_InstanceAB ==
    LET A == <<65>>
        B == <<66>>
        l0 == After(update_all(Leaderboard(<<>>, EmptyMap),
                               << <<A, Fin(5)>>, <<B, Fin(10)>> >>))
        l1 == After(update_call(l0, A, Fin(15)))
    IN /\ l1.drivers = << <<Fin(10), B>>, <<Fin(15), A>> >>
       /\ get_rank(l1, A) = Some(2)
       /\ get_rank(l1, B) = Some(1)

\* the five drivers of the demo, then VER to 11.500: rank(VER) = 2,
\* rank(SAI) = 3
C11_InstanceSample ==
    LET l0 == After(update_all(Leaderboard(<<>>, EmptyMap), demo_drivers))
        l1 == After(update_call(l0, VER, Fin(11500)))
    IN /\ get_rank(l0, LEC) = Some(1)
       /\ get_rank(l1, VER) = Some(2)
       /\ get_rank(l1, SAI) = Some(3)

\* C11: Update reorders correctly. After update(K, s) on a present name K,
\* in any reachable state and for any float s, K has the rank of (s, K),
\* the names between K's old and new rank move by one towards the old rank
\* and the others keep theirs; and the two instances of the specification
\* come out as stated.
C11_UpdateReorders ==
    C11_On(Gaps) /\ C11_InstanceAB /\ C11_InstanceSample

\* the same for finite gaps only
C11_FiniteReorders == C11_On(FiniteGaps)

\* the two instances alone
C11_Instances == C11_InstanceAB /\ C11_InstanceSample

\* C12: Queries are side-effect-free. In every reachable state, for every
\* name and every k, get_rank(name) and top_k(k) leave drivers and
\* driver_map as they were, and the same call made again right after
\* returns an equal result.
C12_QueriesPure ==
    /\ \A name \in Names :
           LET r == get_rank_call(lb, name)
           IN /\ r.drivers = drivers /\ r.driver_map = driver_map
              /\ get_rank_call(After(r), name).out = r.out
    /\ \A k \in (0 - MaxK)..MaxK :
           LET r == top_k_call(lb, k)
           IN /\ r.drivers = drivers /\ r.driver_map = driver_map
              /\ top_k_call(After(r), k).out = r.out

\* both queries have something to return: three entries, one of them NaN,
\* and top_k(2) cuts the list
C12_Witness ==
    /\ Len(drivers) = 3
    /\ \E i \in 1..3 : IsNaN(drivers[i][1])
    /\ \A name \in Names : get_rank_call(lb, name).out # None
    /\ Len(top_k_call(lb, 2).out) = 2

\* answers tried at a confirmation prompt: "y", "Y", "n", "N", "", "yes",
\* " y", "y "
ConfirmAnswers ==
    {<<121>>, <<89>>, <<110>>, <<78>>, <<>>, <<121, 101, 115>>,
     <<32, 121>>, <<121, 32>>}

\* the operator answered y, in either case
SaysY(answer) == answer \in {<<121>>, <<89>>}

\* the call changed the index
Changed(r) == r.drivers # drivers \/ r.driver_map # driver_map

\* C13: Destructive operations are confirmed first. In every reachable
\* state, a removal or a clear of the shell changes drivers or driver_map
\* only when the operator answered y (the shell lower-cases the answer, so
\* 'Y' is the same answer) to the confirmation prompt of that operation;
\* with any other answer the index is left exactly as it was.
C13_ConfirmedFirst ==
    \A confirm \in ConfirmAnswers :
        /\ \A raw \in RawNames :
               Changed(module_4_remove_driver_call(lb, raw, confirm))
                   => SaysY(confirm)
        /\ Changed(main_clear_call(lb, confirm)) => SaysY(confirm)

\* a held name whose removal goes through on 'y' and is refused on "yes"
C13_Witness ==
    \E raw \in RawNames :
        /\ DriverCode(raw) \in DOMAIN driver_map
        /\ Changed(module_4_remove_driver_call(lb, raw, <<121>>))
        /\ module_4_remove_driver_call(lb, raw, <<121, 101, 115>>).out
               = "Removal cancelled"
        /\ Changed(main_clear_call(lb, <<89>>))

\* g >= 0 as Python evaluates it: false for NaN
NonNegative(g) == FloatLt(Fin(0), g) \/ FloatEq(g, Fin(0))

\* the call went as far as lb.update
UpdateIssued(r) == r.out \in {"added", "updated", "IndexError"}

\* C14, for the gaps of G: every update the shell issues from operator
\* input has a code of exactly 3 characters and a gap >= 0, and every entry
\* of the index has a 3-character name and a gap >= 0.
C14_On(G) ==
    /\ \A raw \in ShellRawNames, parsed \in Parsed(G) :
           /\ \A choice \in Answers :
                  UpdateIssued(module_1_add_driver_call(lb, raw, choice, parsed))
                      => /\ Len(DriverCode(raw)) = 3
                         /\ parsed # ValueError /\ NonNegative(parsed)
           /\ UpdateIssued(module_2_update_lap_time_call(lb, raw, parsed))
                  => /\ Len(DriverCode(raw)) = 3
                     /\ parsed # ValueError /\ NonNegative(parsed)
    /\ \A i \in 1..Len(drivers) :
           Len(drivers[i][2]) = 3 /\ NonNegative(drivers[i][1])
    /\ \A n \in DOMAIN driver_map : Len(n) = 3 /\ NonNegative(driver_map[n])

\* C14: Shell input validation. In every state reachable through the shell
\* (sample-data loading included), every update issued from operator input
\* carries a name of exactly 3 characters and a non-negative numeric gap,
\* whatever the operator types, and every entry of the index has a
\* 3-character name and a gap >= 0.
C14_ShellValidates == C14_On(Gaps)

\* C15: Ranks form a permutation. In every reachable state with n names,
\* the values get_rank(K) over the present names K are pairwise distinct
\* and are exactly {1, ..., n}, ties in gap included, and get_rank(K) is
\* the rank top_k(n) reports for K.
C15_RanksPermutation ==
    LET n == Cardinality(DOMAIN driver_map)
        top == top_k(lb, n)
    IN /\ {RankOf(lb, K) : K \in DOMAIN driver_map} = 1..n
       /\ \A K, J \in DOMAIN driver_map :
              K # J => RankOf(lb, K) # RankOf(lb, J)
       /\ \A K \in DOMAIN driver_map :
              /\ \E i \in 1..Len(top) : top[i][2] = K
              /\ \A i \in 1..Len(top) :
                     top[i][2] = K => top[i][1] = RankOf(lb, K)

\* C16: Update removes the right entry. In every reachable state and for
\* every present name, the index bisect_left(drivers, (old_gap, name)) that
\* update computes is within range and drivers[idx] is (old_gap, name): the
\* pop neither raises IndexError nor deletes another name's entry.
C16_UpdatePopsOwnEntry ==
    \A name \in DOMAIN driver_map :
        LET old_gap == driver_map[name]
            idx == bisect_left(drivers, <<old_gap, name>>)
        IN /\ idx < Len(drivers)
           /\ drivers[idx + 1] = <<old_gap, name>>
           /\ \A gap \in Gaps : update_call(lb, name, gap).out # "IndexError"

\* C17: Removal scan always succeeds. In every state reachable through the
\* shell, a removal of a name found in driver_map and confirmed by the
\* operator finds the entry in drivers: it never ends in the branch
\* 'Error removing driver'.
C17_RemovalScanSucceeds ==
    \A raw \in ShellRawNames, confirm \in ConfirmAnswers :
        LET r == module_4_remove_driver_call(lb, raw, confirm)
        IN /\ r.out # "Error removing driver"
           /\ (DriverCode(raw) \in DOMAIN driver_map /\ SaysY(confirm))
                  => r.out = "removed successfully"

=============================================================================
